---- MODULE Spec2Model ----
(***************************************************************************)
(* Task orchestration engine of the autonomous-coding skill:               *)
(* the Task Store (task_manager.py), the Refiner (refiner.py), the         *)
(* cancellable oracle call (coding_tool.py) and the control loop           *)
(* (agent.py).                                                             *)
(*                                                                         *)
(* Encoding of the Python values:                                          *)
(*   - a task id "1-2" is the sequence <<1, 2>> of its "-"-separated       *)
(*     tokens, so "P-" is a string prefix of an id exactly when P is a     *)
(*     proper prefix of the sequence;                                      *)
(*   - updated_time is <<>> for None and <<n>> for the ISO stamp taken     *)
(*     at logical time n;                                                  *)
(*   - a dict is a function on its keys, so "k in d" is k \in DOMAIN d;    *)
(*     the key "title" stands for the three required text fields title,    *)
(*     description and test_command;                                       *)
(*   - a text is a sequence of one-character strings.                      *)
(***************************************************************************)
EXTENDS Integers, Sequences, FiniteSets, TLC

VARIABLES
    tasks,          \* TaskManager.tasks: sequence of SubTask
    requirement,    \* TaskManager.requirement
    file,           \* content of tasks.json: <<>> when absent, <<doc>> otherwise
    clock,          \* logical time of datetime.utcnow()
    pc,             \* position of autonomous_coding / AutonomousAgent.run
    task,           \* run(): the SubTask selected by this iteration (<<>> or <<t>>)
    task_count,     \* run(): task_count
    max_tasks,      \* run(): max_tasks
    worker,         \* state of the ThreadPoolExecutor worker of the oracle call
    expired,        \* the deadline of the oracle call in flight has expired
    exit_code,      \* run(): exit_code of the last Verifier call
    output,         \* run(): output of the last Verifier call
    has_error,      \* run(): has_error
    last_op,        \* the Task Store operation performed by the last step
    coder_response, \* run(): coder_response ("none" for None, "empty" for "")
    started,        \* number of tasks run() has marked in_progress
    response,       \* refinement step alone: the outcome of the Refiner's query_json
    updated_tasks,  \* refinement step alone: the list refine() returned
    current_dicts,  \* refinement step alone: current_tasks_dict after refine()
    path_in,        \* parse_files_from_response: the path text of a FILE: block
    target,         \* run(): full_path the file is written to (<<>> before)
    args,           \* an operation called alone: its arguments (<<>> when none)
    ret,            \* an operation called alone: <<>> before it returns, <<v>> after
    passed,         \* run(): this iteration took the "Tests passed!" branch
    diff_read,      \* run(): this iteration has read get_diff and get_untracked_files
    commits         \* number of calls of GitManager.commit made by this iteration

vars == <<tasks, requirement, file, clock, pc, task, task_count, max_tasks,
          worker, expired, exit_code, output, has_error, last_op,
          coder_response, started,
          response, updated_tasks, current_dicts, path_in, target, args, ret,
          passed, diff_read, commits>>

refineVars == <<response, updated_tasks, current_dicts>>

fileVars == <<path_in, target>>

callVars == <<args, ret>>

gitVars == <<passed, diff_read, commits>>

\* the variables the run of the loop leaves alone
otherVars == <<refineVars, fileVars, callVars>>

----------------------------------------------------------------------------
(* Bounds of the model *)

\* longest task list a refinement or decomposition answer carries
MaxOracleLen == 2

\* longest task list a planning answer carries
MaxPlanLen == 1

\* longest task list of the tasks.json found at start
MaxFileLen == 1

\* largest ceiling passed as max_tasks
MaxCeiling == 2

\* most components of a path in an oracle response
MaxPathLen == 3

----------------------------------------------------------------------------
(* Values *)

None == <<>>

Stamp(n) == <<n>>

\* the task ids of the model: "1", "1-1", "1-2"
Ids == {<<1>>, <<1, 1>>, <<1, 2>>}

ValidStatuses == {"pending", "in_progress", "completed", "failed"}

\* a status string outside the four of the data model
OtherStatus == "blocked"

Title == "T"

\* SubTask.__init__: status defaults to "pending", updated_time to None;
\* a missing required field or an unknown keyword raises TypeError
SubTaskFields == {"id", "title", "status", "updated_time"}

IsDict(d) == "nondict" \notin DOMAIN d

CanConstruct(d) ==
    /\ IsDict(d)
    /\ {"id", "title"} \subseteq DOMAIN d
    /\ DOMAIN d \subseteq SubTaskFields

SubTask(d) ==
    [id           |-> d.id,
     title        |-> d.title,
     status       |-> IF "status" \in DOMAIN d THEN d.status ELSE "pending",
     updated_time |-> IF "updated_time" \in DOMAIN d THEN d.updated_time ELSE None]

\* SubTask.model_dump(exclude_none=False): every field is a key
model_dump(t) ==
    [id |-> t.id, title |-> t.title, status |-> t.status,
     updated_time |-> t.updated_time]

\* d with d[k] = v (dict item assignment)
SetKey(d, k, v) == [x \in DOMAIN d \cup {k} |-> IF x = k THEN v ELSE d[x]]

\* {t.id: t for t in ts}: the LAST entry with an id wins
HasId(ts, id) == \E i \in 1..Len(ts) : ts[i].id = id

LastWithId(ts, id) ==
    ts[CHOOSE i \in 1..Len(ts) :
          /\ ts[i].id = id
          /\ \A j \in (i+1)..Len(ts) : ts[j].id # id]

\* first index holding the id (the entry a "for ... break" scan reaches)
FirstIndexOf(ts, id) ==
    CHOOSE i \in 1..Len(ts) :
        /\ ts[i].id = id
        /\ \A j \in 1..(i-1) : ts[j].id # id

----------------------------------------------------------------------------
(* Task Store: task_manager.py *)

Doc(req, ts) == [requirement |-> req, tasks |-> ts]

\* save_tasks: the whole document is rewritten from model_dump of every task;
\* the JSON text is represented by the value it parses to
save_tasks(req, ts) == <<Doc(req, [i \in 1..Len(ts) |-> model_dump(ts[i])])>>

\* load_tasks reading the document as the legacy list format: no requirement
load_tasks_list_format(f) ==
    IF f = <<>> THEN Doc("", <<>>)
    ELSE Doc("", [i \in 1..Len(f[1].tasks) |-> SubTask(f[1].tasks[i])])

\* load_tasks on a fresh manager (tasks = [], requirement = ""):
\* an absent file leaves the fields as constructed
load_tasks(f) ==
    IF f = <<>> THEN Doc("", <<>>)
    ELSE Doc(f[1].requirement, [i \in 1..Len(f[1].tasks) |-> SubTask(f[1].tasks[i])])

\* a set_tasks that carries no updated_time over
set_tasks_entry_never_carries(old, d) ==
    IF "updated_time" \in DOMAIN d THEN d ELSE SetKey(d, "updated_time", None)

\* set_tasks, the dict handed to SubTask for one incoming dict
set_tasks_entry(old, d) ==
    IF "updated_time" \in DOMAIN d THEN d
    ELSE IF HasId(old, d.id)
         THEN SetKey(d, "updated_time", LastWithId(old, d.id).updated_time)
         ELSE SetKey(d, "updated_time", None)

\* set_tasks raises (new_task_dict.get / SubTask(**d)) before self.tasks is assigned
set_tasks_raises(new) == \E i \in 1..Len(new) : ~CanConstruct(new[i])

set_tasks_list(old, new) ==
    [i \in 1..Len(new) |-> SubTask(set_tasks_entry(old, new[i]))]

\* a selection test that takes pending tasks alone
Actionable_pending_only(t) == t.status = "pending"

\* get_next_task: index of the first actionable task, 0 for None
Actionable(t) == t.status \in {"pending", "failed", "in_progress"}

\* for task in self.tasks: if task.status in [...]: return task
RECURSIVE next_task_from(_, _)
next_task_from(ts, i) ==
    IF i > Len(ts) THEN 0
    ELSE IF Actionable(ts[i]) THEN i
    ELSE next_task_from(ts, i + 1)

get_next_task(ts) == next_task_from(ts, 1)

\* an update_task_status that stamps every task of the list
update_task_status_stamps_all(ts, id, status, now) ==
    [i \in 1..Len(ts) |->
        IF ts[i].id = id
        THEN [ts[i] EXCEPT !.status = status, !.updated_time = Stamp(now)]
        ELSE [ts[i] EXCEPT !.updated_time = Stamp(now)]]

\* update_task_status: the first task with the id, stamped with now
update_task_status(ts, id, status, now) ==
    IF HasId(ts, id)
    THEN [ts EXCEPT ![FirstIndexOf(ts, id)] =
              [@ EXCEPT !.status = status, !.updated_time = Stamp(now)]]
    ELSE ts

\* an add_task that puts the task at the head of the list
add_task_first(ts, t, now) ==
    <<IF t.updated_time = None THEN [t EXCEPT !.updated_time = Stamp(now)] ELSE t>> \o ts

\* add_task: stamp when updated_time is falsy, append
add_task(ts, t, now) ==
    Append(ts, IF t.updated_time = None THEN [t EXCEPT !.updated_time = Stamp(now)] ELSE t)

----------------------------------------------------------------------------
(* Refiner: refiner.py *)

\* refine(), lines 99-106: the fix-up of one proposed dict against the input list
refine_entry(old, d) ==
    IF "id" \in DOMAIN d /\ HasId(old, d.id)
    THEN LET existing_task == LastWithId(old, d.id)
             d1 == IF "updated_time" \in DOMAIN existing_task
                      /\ "updated_time" \notin DOMAIN d
                   THEN SetKey(d, "updated_time", existing_task.updated_time)
                   ELSE d
         IN  IF existing_task.status = "completed"
             THEN SetKey(d1, "status", "completed")
             ELSE d1
    ELSE d

\* the for loop of refine(): the proposed dicts are patched in place, in order;
\* new_task.get on an entry that is no dict raises and ends the loop
RECURSIVE refine_loop(_, _, _)
refine_loop(old, new, i) ==
    IF i > Len(new) THEN [raised |-> FALSE, list |-> new]
    ELSE IF ~IsDict(new[i]) THEN [raised |-> TRUE, list |-> new]
    ELSE refine_loop(old, [new EXCEPT ![i] = refine_entry(old, new[i])], i + 1)

\* the handler returning the half-patched proposal
refine_except_partial(old, partial) == partial

\* what refine() hands back when the try block raised
refine_except(old, partial) == old

\* refine(): ret is the list returned, input the caller's list after the call
\* (response.get("tasks", tasks) makes new_tasks the caller's list itself when
\* the answer has no "tasks" key)
refine(old, resp) ==
    IF resp.kind = "raise" THEN [ret |-> old, input |-> old]
    ELSE IF "tasks" \notin DOMAIN resp
         THEN LET r == refine_loop(old, old, 1) IN [ret |-> r.list, input |-> r.list]
         ELSE LET r == refine_loop(old, resp.tasks, 1)
              IN  IF r.raised
                  THEN [ret |-> refine_except(old, r.list), input |-> old]
                  ELSE [ret |-> r.list, input |-> old]

----------------------------------------------------------------------------
(* Pass policy: agent.py *)

\* text contains pat as a substring (Python's "pat in text")
Contains(text, pat) ==
    \E i \in 1..(Len(text) - Len(pat) + 1) : SubSeq(text, i, i + Len(pat) - 1) = pat

error_patterns ==
    { <<"e", "r", "r", "o", "r">>,
      <<"E", "r", "r", "o", "r">>,
      <<"E", "R", "R", "O", "R">>,
      <<"f", "a", "i", "l", "e", "d">>,
      <<"F", "a", "i", "l", "e", "d">>,
      <<"F", "A", "I", "L", "E", "D">>,
      <<"e", "x", "c", "e", "p", "t", "i", "o", "n">>,
      <<"E", "x", "c", "e", "p", "t", "i", "o", "n">>,
      <<"E", "X", "C", "E", "P", "T", "I", "O", "N">> }

HasErrorPattern(text) == \E p \in error_patterns : Contains(text, p)

\* texts the Verifier may capture
Outputs ==
    { <<>>,
      <<"o", "k">>,
      <<"E", "r", "r", "o", "r", ":", " ", "n", "o", "t", "h", "i", "n", "g", " ", "t", "o", " ", "c", "o", "m", "m", "i", "t">>,
      <<"0", " ", "f", "a", "i", "l", "e", "d">>,
      <<"1", " ", "p", "a", "s", "s", "e", "d">>,
      <<"E", "R", "R", "O", "R">>,
      <<"F", "a", "i", "l", "e", "d">>,
      <<"F", "A", "I", "L", "E", "D", "!">>,
      <<"e", "x", "c", "e", "p", "t", "i", "o", "n">>,
      <<"E", "x", "c", "e", "p", "t", "i", "o", "n">>,
      <<"E", "X", "C", "E", "P", "T", "I", "O", "N">>,
      <<"t", "e", "r", "r", "o", "r">>,
      <<"e", "R", "R", "O", "R">>,
      <<"f", "a", "i", "l">>,
      <<"E", "x", "c", "e", "p", "t", "i", "o", " ", "n">> }

ExitCodes == {0, 1}
----------------------------------------------------------------------------
(* What the environment may supply *)

\* the dicts of an oracle task list, for each id: one in the planner's format
\* (no status, no updated_time), one that claims completion, and one in the
\* refiner's format with a status outside the data model and a null updated_time;
\* and a child "1-2" proposed as already in_progress
OracleDicts ==
    UNION { { [id |-> id, title |-> Title],
              [id |-> id, title |-> Title, status |-> "completed"],
              [id |-> id, title |-> Title, status |-> OtherStatus,
               updated_time |-> None] }
            : id \in Ids }
    \cup { [id |-> <<1, 2>>, title |-> Title, status |-> "in_progress"] }

\* an entry that is no dict, and a dict without its required text fields
BadEntries == { [nondict |-> TRUE], [id |-> <<1>>] }

OracleLists(n) ==
    UNION { [1..k -> OracleDicts \cup BadEntries] : k \in 0..n }

\* outcomes of query_json: it raises, or returns a dict with or without "tasks"
JsonResponses(n) ==
    { [kind |-> "raise"], [kind |-> "dict"] }
    \cup { [kind |-> "dict", tasks |-> l] : l \in OracleLists(n) }

\* outcomes of query: it raises, or returns None, "" or a text
CoderResponses == {"raise", "none", "empty", "text"}

\* tasks.json found at start: absent, or a document written by an earlier run
\* or by hand
FileDicts ==
    UNION { { [id |-> id, title |-> Title, status |-> "pending"],
              [id |-> id, title |-> Title, status |-> "pending", updated_time |-> None],
              [id |-> id, title |-> Title, status |-> "in_progress",
               updated_time |-> Stamp(0)],
              [id |-> id, title |-> Title, status |-> "failed", updated_time |-> Stamp(0)],
              [id |-> id, title |-> Title, status |-> "completed",
               updated_time |-> Stamp(0)],
              [id |-> id, title |-> Title, status |-> OtherStatus,
               updated_time |-> None] }
            : id \in Ids }

FileLists == UNION { [1..n -> FileDicts] : n \in 0..MaxFileLen }

InitFiles == { <<>> } \cup { <<Doc("R0", l)>> : l \in FileLists }

----------------------------------------------------------------------------
(* Orchestrator: agent.py *)

\* a Task Store operation that changes the fields and does not save
Store_in_memory_only(ts, req, op) ==
    /\ tasks' = ts
    /\ requirement' = req
    /\ file' = file
    /\ last_op' = op

\* a Task Store operation ends with save_tasks
Store(ts, req, op) ==
    /\ tasks' = ts
    /\ requirement' = req
    /\ file' = save_tasks(req, ts)
    /\ last_op' = op

\* self.task_manager.update_task_status(task.id, status)
Mark(status) ==
    /\ Store(update_task_status(tasks, task[1].id, status, clock), requirement,
             "update_task_status")
    /\ clock' = clock + 1

\* max_tasks of run() when no ceiling is given (None)
NoCeiling == -1

\* head of the while loop: the ceiling is given and reached, or no task is
\* actionable
LoopExits(count, max, ts) ==
    \/ (max # NoCeiling /\ count >= max)
    \/ get_next_task(ts) = 0

\* an end of iteration after which the loop never starts another one
EndIteration_stops(ts) ==
    /\ task_count' = task_count + 1
    /\ pc' = "done"
    /\ task' = <<>>
    /\ worker' = "idle"
    /\ expired' = FALSE
    /\ exit_code' = 0
    /\ output' = <<>>
    /\ has_error' = FALSE
    /\ coder_response' = "none"
    /\ started' = started
    /\ passed' = FALSE
    /\ diff_read' = FALSE
    /\ commits' = 0

\* task_count += 1 and back to the head of the while loop, the store holding ts
EndIteration(ts) ==
    /\ task_count' = task_count + 1
    /\ pc' = IF LoopExits(task_count + 1, max_tasks, ts) THEN "done" ELSE "loop"
    /\ task' = <<>>
    /\ worker' = "idle"
    /\ expired' = FALSE
    /\ exit_code' = 0
    /\ output' = <<>>
    /\ has_error' = FALSE
    /\ coder_response' = "none"
    /\ started' = started
    /\ passed' = FALSE
    /\ diff_read' = FALSE
    /\ commits' = 0

\* an error handler that ends the iteration without the status update
AbsorbError_unmarked ==
    /\ EndIteration(tasks)
    /\ last_op' = "none"
    /\ UNCHANGED <<tasks, requirement, file, clock, max_tasks>>
    /\ UNCHANGED otherVars

\* except Exception: update_task_status(task.id, "failed"); then task_count += 1
AbsorbError ==
    /\ Mark("failed")
    /\ EndIteration(tasks')
    /\ UNCHANGED max_tasks
    /\ UNCHANGED otherVars

\* AutonomousAgent.__init__ -> TaskManager.__init__ -> load_tasks
Construct ==
    /\ pc = "new"
    /\ LET d == load_tasks(file)
       IN  /\ tasks' = d.tasks
           /\ requirement' = d.requirement
    /\ last_op' = "load_tasks"
    /\ pc' = "constructed"
    /\ UNCHANGED <<file, clock, task, task_count, max_tasks, worker, expired,
                   exit_code, output, has_error, coder_response, started>>
    /\ UNCHANGED otherVars
    /\ UNCHANGED gitVars

\* plan(): the query raises, plan_response["tasks"] raises KeyError, or
\* set_tasks raises; the handler prints and re-raises
plan_raises(resp) ==
    IF resp.kind = "raise" THEN TRUE
    ELSE IF "tasks" \notin DOMAIN resp THEN TRUE
    ELSE set_tasks_raises(resp.tasks)

\* a plan() whose failure leaves the Task Store emptied and saved
PlanFails_stores(resp) ==
    /\ pc = "constructed"
    /\ plan_raises(resp)
    /\ Store(<<>>, requirement, "set_tasks")
    /\ pc' = "aborted"
    /\ UNCHANGED <<clock, task, task_count, max_tasks, worker, expired,
                   exit_code, output, has_error, coder_response, started>>
    /\ UNCHANGED otherVars
    /\ UNCHANGED gitVars

\* plan() with a requirement fails: the error reaches the caller
PlanFails(resp) ==
    /\ pc = "constructed"
    /\ plan_raises(resp)
    /\ pc' = "aborted"
    /\ last_op' = "none"
    /\ UNCHANGED <<tasks, requirement, file, clock, task, task_count, max_tasks,
                   worker, expired, exit_code, output, has_error,
                   coder_response, started>>
    /\ UNCHANGED otherVars
    /\ UNCHANGED gitVars

\* plan() with a requirement: set_tasks(plan_response["tasks"], requirement)
Plan(resp) ==
    /\ pc = "constructed"
    /\ ~plan_raises(resp)
    /\ Store(set_tasks_list(tasks, resp.tasks), "R1", "set_tasks")
    /\ pc' = "ready"
    /\ UNCHANGED <<clock, task, task_count, max_tasks, worker, expired,
                   exit_code, output, has_error, coder_response, started>>
    /\ UNCHANGED otherVars
    /\ UNCHANGED gitVars

\* autonomous_coding without a requirement, or with recover: no planning
SkipPlan ==
    /\ pc = "constructed"
    /\ pc' = "ready"
    /\ last_op' = "none"
    /\ UNCHANGED <<tasks, requirement, file, clock, task, task_count, max_tasks,
                   worker, expired, exit_code, output, has_error,
                   coder_response, started>>
    /\ UNCHANGED otherVars
    /\ UNCHANGED gitVars

\* run(max_tasks=n, timeout=300)
RunStart(n) ==
    /\ pc = "ready"
    /\ max_tasks' = n
    /\ task_count' = 0
    /\ started' = 0
    /\ pc' = IF LoopExits(0, n, tasks) THEN "done" ELSE "loop"
    /\ last_op' = "none"
    /\ UNCHANGED <<tasks, requirement, file, clock, task, worker, expired,
                   exit_code, output, has_error, coder_response>>
    /\ UNCHANGED otherVars
    /\ UNCHANGED gitVars

\* most iterations followed of a run() that has no ceiling
MaxFreeIterations == 2

\* head of the loop: select the task and mark it in_progress
SelectTask ==
    /\ pc = "loop"
    /\ max_tasks = NoCeiling => started < MaxFreeIterations
    /\ LET t == tasks[get_next_task(tasks)]
       IN  /\ task' = <<t>>
           /\ Store(update_task_status(tasks, t.id, "in_progress", clock),
                    requirement, "update_task_status")
    /\ clock' = clock + 1
    /\ started' = started + 1
    /\ pc' = "context"
    /\ UNCHANGED <<task_count, max_tasks, worker, expired, exit_code, output,
                   has_error, coder_response>>
    /\ UNCHANGED otherVars
    /\ UNCHANGED gitVars

\* get_file_context and the prompt are built; coder_response = None; the
\* implementation query is submitted with the deadline
SubmitQuery ==
    /\ pc = "context"
    /\ pc' = "query"
    /\ worker' = "running"
    /\ expired' = FALSE
    /\ coder_response' = "none"
    /\ last_op' = "none"
    /\ UNCHANGED <<tasks, requirement, file, clock, task, task_count, max_tasks,
                   exit_code, output, has_error, started>>
    /\ UNCHANGED otherVars
    /\ UNCHANGED gitVars

\* building the context raises: the outer handler marks the task failed
ContextFails ==
    /\ pc = "context"
    /\ AbsorbError

\* the oracle call running on the executor's worker returns or raises
WorkerFinish ==
    /\ worker = "running"
    /\ worker' = "done"
    /\ last_op' = "none"
    /\ UNCHANGED <<tasks, requirement, file, clock, pc, task, task_count, max_tasks,
                   expired, exit_code, output, has_error, coder_response, started>>
    /\ UNCHANGED otherVars
    /\ UNCHANGED gitVars

\* query / query_json: future.result(timeout) raises while the call is running;
\* future.cancel() has no effect on a running call, and leaving the with block
\* calls executor.shutdown(wait=True)
DeadlineExpire ==
    /\ pc \in {"query", "breakdown"}
    /\ worker = "running"
    /\ expired' = TRUE
    /\ pc' = IF pc = "query" THEN "query_exit" ELSE "breakdown_exit"
    /\ last_op' = "none"
    /\ UNCHANGED <<tasks, requirement, file, clock, task, task_count, max_tasks,
                   worker, exit_code, output, has_error, coder_response, started>>
    /\ UNCHANGED otherVars
    /\ UNCHANGED gitVars

\* the implementation query raises (not a timeout) or returns None:
\* coder_response is None and the task is marked failed, by the outer handler
\* or by the None check
QueryFails(r) ==
    /\ pc = "query"
    /\ worker = "done"
    /\ r \in {"raise", "none"}
    /\ AbsorbError

\* the implementation query returns a text, empty or not
QueryAnswers(r) ==
    /\ pc = "query"
    /\ worker = "done"
    /\ r \in {"empty", "text"}
    /\ coder_response' = r
    /\ pc' = "files"
    /\ worker' = "idle"
    /\ last_op' = "none"
    /\ UNCHANGED <<tasks, requirement, file, clock, task, task_count, max_tasks,
                   expired, exit_code, output, has_error, started>>
    /\ UNCHANGED otherVars
    /\ UNCHANGED gitVars

\* parse_files_from_response and the writes of the files it found
WriteFiles ==
    /\ pc = "files"
    /\ pc' = "verify"
    /\ last_op' = "none"
    /\ UNCHANGED <<tasks, requirement, file, clock, task, task_count, max_tasks,
                   worker, expired, exit_code, output, has_error,
                   coder_response, started>>
    /\ UNCHANGED otherVars
    /\ UNCHANGED gitVars

\* mkdir or open of a file to write raises
WriteFails ==
    /\ pc = "files"
    /\ coder_response = "text"
    /\ AbsorbError

\* a timeout handler that goes on to the decomposition without the status update
QueryTimeout_unmarked ==
    /\ pc = "query_exit"
    /\ worker = "done"
    /\ pc' = "timed_out"
    /\ worker' = "idle"
    /\ last_op' = "none"
    /\ UNCHANGED <<tasks, requirement, file, clock, task, task_count, max_tasks,
                   expired, exit_code, output, has_error, coder_response, started>>
    /\ UNCHANGED otherVars
    /\ UNCHANGED gitVars

\* a TimeoutError that reaches run() while the call is still running
QueryTimeout_no_wait ==
    /\ pc = "query_exit"
    /\ Mark("failed")
    /\ pc' = "timed_out"
    /\ UNCHANGED <<task, task_count, max_tasks, worker, expired, exit_code, output,
                   has_error, coder_response, started>>
    /\ UNCHANGED otherVars
    /\ UNCHANGED gitVars

\* shutdown(wait=True) returns once the call has ended; TimeoutError reaches
\* run(), which marks the task failed
QueryTimeout ==
    /\ pc = "query_exit"
    /\ worker = "done"
    /\ Mark("failed")
    /\ pc' = "timed_out"
    /\ worker' = "idle"
    /\ UNCHANGED <<task, task_count, max_tasks, expired, exit_code, output,
                   has_error, coder_response, started>>
    /\ UNCHANGED otherVars
    /\ UNCHANGED gitVars

\* query_json(breakdown_context, timeout=120) is submitted
BreakdownSubmit ==
    /\ pc = "timed_out"
    /\ pc' = "breakdown"
    /\ worker' = "running"
    /\ expired' = FALSE
    /\ last_op' = "none"
    /\ UNCHANGED <<tasks, requirement, file, clock, task, task_count, max_tasks,
                   exit_code, output, has_error, coder_response, started>>
    /\ UNCHANGED otherVars
    /\ UNCHANGED gitVars

\* for new_task in new_tasks: add_task(SubTask(**new_task)), until one raises
RECURSIVE add_children(_, _, _, _)
add_children(ts, new, i, now) ==
    IF i > Len(new) THEN [tasks |-> ts, now |-> now]
    ELSE IF ~CanConstruct(new[i]) THEN [tasks |-> ts, now |-> now]
    ELSE LET t == SubTask(new[i])
         IN  add_children(add_task(ts, t, now), new, i + 1,
                          IF t.updated_time = None THEN now + 1 ELSE now)

\* the decomposition query returns or raises in time
BreakdownReturn(resp) ==
    /\ pc = "breakdown"
    /\ worker = "done"
    /\ IF resp.kind = "dict" /\ "tasks" \in DOMAIN resp /\ Len(resp.tasks) > 0
       THEN LET r == add_children(tasks, resp.tasks, 1, clock)
            IN  /\ Store(r.tasks, requirement,
                         IF r.tasks = tasks THEN "none" ELSE "add_task")
                /\ clock' = r.now
       ELSE /\ last_op' = "none"
            /\ UNCHANGED <<tasks, requirement, file, clock>>
    /\ EndIteration(tasks')
    /\ UNCHANGED max_tasks
    /\ UNCHANGED otherVars

\* a timeout of the decomposition query that does not count the iteration
BreakdownTimeout_uncounted ==
    /\ pc = "breakdown_exit"
    /\ worker = "done"
    /\ last_op' = "none"
    /\ pc' = "loop"
    /\ task' = <<>>
    /\ worker' = "idle"
    /\ expired' = FALSE
    /\ UNCHANGED <<tasks, requirement, file, clock, task_count, max_tasks,
                   exit_code, output, has_error, coder_response, started>>
    /\ UNCHANGED otherVars
    /\ UNCHANGED gitVars

\* the decomposition query times out: TimeoutError is caught by the inner handler
BreakdownTimeout ==
    /\ pc = "breakdown_exit"
    /\ worker = "done"
    /\ last_op' = "none"
    /\ EndIteration(tasks)
    /\ UNCHANGED <<tasks, requirement, file, clock, max_tasks>>
    /\ UNCHANGED otherVars

\* executor.run_command(task.test_command)
RunVerifier(e, o) ==
    /\ pc = "verify"
    /\ exit_code' = e
    /\ output' = o
    /\ pc' = "verdict"
    /\ last_op' = "none"
    /\ UNCHANGED <<tasks, requirement, file, clock, task, task_count, max_tasks,
                   worker, expired, has_error, coder_response, started>>
    /\ UNCHANGED otherVars
    /\ UNCHANGED gitVars

\* run_command raises (Popen fails)
VerifierRaises ==
    /\ pc = "verify"
    /\ AbsorbError

\* the pass decision on the exit code alone
Passed_exit_code_only(e, he) == e = 0

\* if exit_code == 0 and not has_error
Passed(e, he) == e = 0 /\ ~he

\* a verdict after which the commit is made whatever the pass policy decided
Verdict_commits_always ==
    /\ pc = "verdict"
    /\ has_error' = HasErrorPattern(output)
    /\ IF Passed(exit_code, has_error')
       THEN Mark("completed") /\ passed' = TRUE
       ELSE Mark("failed") /\ passed' = FALSE
    /\ pc' = "commit"
    /\ output' = <<>>
    /\ UNCHANGED <<task, task_count, max_tasks, worker, expired, exit_code,
                   coder_response, started, diff_read, commits>>
    /\ UNCHANGED otherVars

\* the pass decision and the status update that follows it
Verdict ==
    /\ pc = "verdict"
    /\ has_error' = HasErrorPattern(output)
    /\ IF Passed(exit_code, has_error')
       THEN Mark("completed") /\ pc' = "commit" /\ passed' = TRUE
       ELSE Mark("failed") /\ pc' = "refine" /\ passed' = FALSE
    /\ output' = <<>>
    /\ UNCHANGED <<task, task_count, max_tasks, worker, expired, exit_code,
                   coder_response, started, diff_read, commits>>
    /\ UNCHANGED otherVars

\* get_diff and get_untracked_files return
ReadDiff ==
    /\ pc = "commit"
    /\ diff_read' = TRUE
    /\ pc' = "commit_msg"
    /\ last_op' = "none"
    /\ UNCHANGED <<tasks, requirement, file, clock, task, task_count, max_tasks,
                   worker, expired, exit_code, output, has_error,
                   coder_response, started, passed, commits>>
    /\ UNCHANGED otherVars

\* the commit-message query returns (it has no deadline)
CommitMessage ==
    /\ pc = "commit_msg"
    /\ pc' = "committing"
    /\ last_op' = "none"
    /\ UNCHANGED <<tasks, requirement, file, clock, task, task_count, max_tasks,
                   worker, expired, exit_code, output, has_error,
                   coder_response, started>>
    /\ UNCHANGED otherVars
    /\ UNCHANGED gitVars

\* self.git_manager.commit(commit_msg) is called
Commit ==
    /\ pc = "committing"
    /\ commits' = commits + 1
    /\ pc' = "committed"
    /\ last_op' = "none"
    /\ UNCHANGED <<tasks, requirement, file, clock, task, task_count, max_tasks,
                   worker, expired, exit_code, output, has_error,
                   coder_response, started, passed, diff_read>>
    /\ UNCHANGED otherVars

\* commit returns: "Changes committed."
CommitOk ==
    /\ pc = "committed"
    /\ pc' = "refine"
    /\ last_op' = "none"
    /\ UNCHANGED <<tasks, requirement, file, clock, task, task_count, max_tasks,
                   worker, expired, exit_code, output, has_error,
                   coder_response, started>>
    /\ UNCHANGED otherVars
    /\ UNCHANGED gitVars

\* get_diff, get_untracked_files, the commit-message query or commit raises:
\* the outer handler marks the task failed
CommitFails ==
    /\ pc \in {"commit", "commit_msg", "committed"}
    /\ AbsorbError

\* result_context, line 228: the word after "Task '<title>' "; exit_code is not
\* assigned again before refine() is called with last_result=result_context
result_context(e) == IF e = 0 THEN "passed" ELSE "failed"

\* refine(), lines 52-55: the CRITICAL INSTRUCTION to break the failed task
\* down is appended to refine_context
critical_instruction(e) == e # 0

\* current_tasks_dict = [t.model_dump() for t in self.task_manager.tasks]
current_tasks_dict(ts) == [i \in 1..Len(ts) |-> model_dump(ts[i])]

\* refine, the comparison of the two lists, set_tasks, and the stop test
Refine(resp) ==
    /\ pc = "refine"
    /\ LET r == refine(current_tasks_dict(tasks), resp)
           changed == r.input # r.ret
       IN  IF changed /\ set_tasks_raises(r.ret)
           THEN /\ Mark("failed")
                /\ EndIteration(tasks')
           ELSE LET ts == IF changed THEN set_tasks_list(tasks, r.ret) ELSE tasks
                IN  /\ IF changed
                       THEN Store(ts, requirement, "set_tasks")
                       ELSE /\ last_op' = "none"
                            /\ UNCHANGED <<tasks, requirement, file>>
                    /\ clock' = clock
                    /\ IF exit_code # 0 /\ get_next_task(ts) = 0
                       THEN /\ pc' = "done"
                            /\ task' = <<>>
                            /\ exit_code' = 0
                            /\ coder_response' = "none"
                            /\ passed' = FALSE
                            /\ diff_read' = FALSE
                            /\ commits' = 0
                            /\ UNCHANGED <<task_count, worker, expired, output,
                                           has_error, started>>
                       ELSE EndIteration(ts)
    /\ UNCHANGED max_tasks
    /\ UNCHANGED otherVars

----------------------------------------------------------------------------
(* The system: autonomous_coding on a project directory *)

Init ==
    /\ tasks = <<>>
    /\ requirement = ""
    /\ file \in InitFiles
    /\ clock = 1
    /\ pc = "new"
    /\ task = <<>>
    /\ task_count = 0
    /\ max_tasks = 0
    /\ worker = "idle"
    /\ expired = FALSE
    /\ exit_code = 0
    /\ output = <<>>
    /\ has_error = FALSE
    /\ last_op = "none"
    /\ coder_response = "none"
    /\ started = 0
    /\ response = <<>>
    /\ updated_tasks = <<>>
    /\ current_dicts = <<>>
    /\ path_in = <<>>
    /\ target = <<>>
    /\ args = <<>>
    /\ ret = <<>>
    /\ passed = FALSE
    /\ diff_read = FALSE
    /\ commits = 0

\* one step of the agent under run(max_tasks=n), the oracle answering lists of
\* at most m tasks
Step(m) ==
    \/ Construct
    \/ \E resp \in JsonResponses(MaxPlanLen) : PlanFails(resp)
    \/ \E resp \in JsonResponses(MaxPlanLen) : Plan(resp)
    \/ SkipPlan
    \/ \E n \in 0..MaxCeiling : RunStart(n)
    \/ SelectTask
    \/ SubmitQuery
    \/ ContextFails
    \/ WorkerFinish
    \/ DeadlineExpire
    \/ \E r \in CoderResponses : QueryFails(r)
    \/ \E r \in CoderResponses : QueryAnswers(r)
    \/ WriteFiles
    \/ WriteFails
    \/ QueryTimeout
    \/ BreakdownSubmit
    \/ \E resp \in JsonResponses(m) : BreakdownReturn(resp)
    \/ BreakdownTimeout
    \/ \E e \in ExitCodes, o \in Outputs : RunVerifier(e, o)
    \/ VerifierRaises
    \/ Verdict
    \/ ReadDiff
    \/ CommitMessage
    \/ Commit
    \/ CommitOk
    \/ CommitFails
    \/ \E resp \in JsonResponses(m) : Refine(resp)

Next == Step(MaxOracleLen)

Spec == Init /\ [][Next]_vars

\* autonomous_coding(project_dir, max_tasks=a), the agent constructed and the
\* planning done or skipped: `if max_tasks:` hands the ceiling to run() when it
\* is given and not zero, and calls run(timeout=300) without one otherwise
autonomous_coding(a) ==
    /\ pc = "ready"
    /\ args' = [op |-> "autonomous_coding", max_tasks |-> a]
    /\ LET n == IF a # NoCeiling /\ a # 0 THEN a ELSE NoCeiling
       IN  /\ max_tasks' = n
           /\ pc' = IF LoopExits(0, n, tasks) THEN "done" ELSE "loop"
    /\ task_count' = 0
    /\ started' = 0
    /\ last_op' = "none"
    /\ UNCHANGED <<tasks, requirement, file, clock, task, worker, expired,
                   exit_code, output, has_error, coder_response>>
    /\ UNCHANGED <<refineVars, fileVars, ret>>
    /\ UNCHANGED gitVars

\* longest task list of an oracle answer in the runs started by the entry
\* point
MaxEntryOracleLen == 1

\* one step of a run started by the entry point, with or without a ceiling
NextEntry ==
    \/ Construct
    \/ \E resp \in JsonResponses(MaxPlanLen) : PlanFails(resp)
    \/ \E resp \in JsonResponses(MaxPlanLen) : Plan(resp)
    \/ SkipPlan
    \/ \E a \in {NoCeiling} \cup 0..MaxCeiling : autonomous_coding(a)
    \/ SelectTask
    \/ SubmitQuery
    \/ ContextFails
    \/ WorkerFinish
    \/ DeadlineExpire
    \/ \E r \in CoderResponses : QueryFails(r)
    \/ \E r \in CoderResponses : QueryAnswers(r)
    \/ WriteFiles
    \/ WriteFails
    \/ QueryTimeout
    \/ BreakdownSubmit
    \/ \E resp \in JsonResponses(MaxEntryOracleLen) : BreakdownReturn(resp)
    \/ BreakdownTimeout
    \/ \E e \in ExitCodes, o \in Outputs : RunVerifier(e, o)
    \/ VerifierRaises
    \/ Verdict
    \/ ReadDiff
    \/ CommitMessage
    \/ Commit
    \/ CommitOk
    \/ CommitFails
    \/ \E resp \in JsonResponses(MaxEntryOracleLen) : Refine(resp)

SpecEntry == Init /\ [][NextEntry]_vars


\* longest task list of a refinement or decomposition answer in the runs
\* checked for termination
MaxFairOracleLen == 1

NextFair == Step(MaxFairOracleLen)

\* every external call (oracle, Verifier, git) returns: a step that can be
\* taken is eventually taken
SpecFair == Init /\ [][NextFair]_vars /\ WF_vars(NextFair)
----------------------------------------------------------------------------
(* The refinement step alone: steps 8-9 of an iteration (agent.py, lines        *)
(* 269-287) on a Task Store holding any short list, for any oracle answer       *)

\* longest task list of the store the step starts from
MaxStoreLen == 1

StoreTasks ==
    { [id |-> id, title |-> Title, status |-> s, updated_time |-> u]
      : id \in Ids, s \in {"pending", "failed", "completed"}, u \in {None, Stamp(0)} }

StoreLists == UNION { [1..n -> StoreTasks] : n \in 0..MaxStoreLen }

InitRefine ==
    /\ tasks \in StoreLists
    /\ requirement = "R0"
    /\ file = save_tasks(requirement, tasks)
    /\ clock = 1
    /\ pc = "refine"
    /\ task = <<>>
    /\ task_count = 0
    /\ max_tasks = 0
    /\ worker = "idle"
    /\ expired = FALSE
    /\ exit_code = 0
    /\ output = <<>>
    /\ has_error = FALSE
    /\ last_op = "none"
    /\ coder_response = "none"
    /\ started = 0
    /\ response \in { <<r>> : r \in JsonResponses(MaxOracleLen) }
    /\ updated_tasks = <<>>
    /\ current_dicts = <<>>
    /\ path_in = <<>>
    /\ target = <<>>
    /\ args = <<>>
    /\ ret = <<>>
    /\ passed = FALSE
    /\ diff_read = FALSE
    /\ commits = 0

\* updated_tasks = self.refiner.refine(tasks=current_tasks_dict, ...)
RefineCall ==
    /\ pc = "refine"
    /\ LET r == refine(current_tasks_dict(tasks), response[1])
       IN  /\ updated_tasks' = r.ret
           /\ current_dicts' = r.input
    /\ pc' = "refined"
    /\ last_op' = "none"
    /\ UNCHANGED <<tasks, requirement, file, clock, task, task_count, max_tasks,
                   worker, expired, exit_code, output, has_error, coder_response,
                   started, response, fileVars, callVars, gitVars>>

\* the two lists are equal: the store is not touched
KeepTasks ==
    /\ pc = "refined"
    /\ current_dicts = updated_tasks
    /\ pc' = "kept"
    /\ last_op' = "none"
    /\ UNCHANGED <<tasks, requirement, file, clock, task, task_count, max_tasks,
                   worker, expired, exit_code, output, has_error, coder_response,
                   started, refineVars, fileVars, callVars, gitVars>>

\* the two lists differ: set_tasks(updated_tasks)
ReplaceTasks ==
    /\ pc = "refined"
    /\ current_dicts # updated_tasks
    /\ ~set_tasks_raises(updated_tasks)
    /\ Store(set_tasks_list(tasks, updated_tasks), requirement, "set_tasks")
    /\ pc' = "replaced"
    /\ UNCHANGED <<clock, task, task_count, max_tasks, worker, expired, exit_code,
                   output, has_error, coder_response,
                   started, refineVars, fileVars, callVars, gitVars>>

\* the two lists differ and set_tasks raises: the error leaves the step
ReplaceRaises ==
    /\ pc = "refined"
    /\ current_dicts # updated_tasks
    /\ set_tasks_raises(updated_tasks)
    /\ pc' = "raised"
    /\ last_op' = "none"
    /\ UNCHANGED <<tasks, requirement, file, clock, task, task_count, max_tasks,
                   worker, expired, exit_code, output, has_error, coder_response,
                   started, refineVars, fileVars, callVars, gitVars>>

NextRefine == RefineCall \/ KeepTasks \/ ReplaceTasks \/ ReplaceRaises

SpecRefine == InitRefine /\ [][NextRefine]_vars
----------------------------------------------------------------------------
(* Writing the files of a response: parse_files_from_response and the write     *)
(* loop of run() (agent.py, lines 33-55 and 215-222).  A path text is           *)
(* [abs, parts]: whether it starts with "/", and its "/"-separated components.  *)

\* self.project_dir, resolved by autonomous_coding: /home/proj
project_dir == [abs |-> TRUE, parts |-> <<"home", "proj">>]

PathComponents == {".", "..", "a", "home", "proj"}

PathTexts ==
    { [abs |-> b, parts |-> s]
      : b \in BOOLEAN, s \in UNION { [1..n -> PathComponents] : n \in 0..MaxPathLen } }

\* s without its "." components
RECURSIVE DropDots(_)
DropDots(s) ==
    IF s = <<>> THEN <<>>
    ELSE IF Head(s) = "." THEN DropDots(Tail(s))
    ELSE <<Head(s)>> \o DropDots(Tail(s))

\* Path(text): "." components are dropped, ".." components are kept
Path(text) == [abs |-> text.abs, parts |-> DropDots(text.parts)]

IsPrefix(s, t) == Len(s) <= Len(t) /\ SubSeq(t, 1, Len(s)) = s

\* path_obj.relative_to(root) raises ValueError unless root's parts lead the path
relative_to_raises(path, root) == ~(path.abs = root.abs /\ IsPrefix(root.parts, path.parts))

relative_to(path, root) ==
    [abs |-> FALSE, parts |-> SubSeq(path.parts, Len(root.parts) + 1, Len(path.parts))]

\* Path(path_obj.name): the last component alone, no component for the root
name_path(path) ==
    [abs |-> FALSE,
     parts |-> IF path.parts = <<>> THEN <<>> ELSE <<path.parts[Len(path.parts)]>>]

\* parse_files_from_response: the key under which the content is filed
parsed_path(text) ==
    LET path_obj == Path(text)
    IN  IF path_obj.abs
        THEN IF relative_to_raises(path_obj, project_dir)
             THEN name_path(path_obj)
             ELSE relative_to(path_obj, project_dir)
        ELSE path_obj

\* full_path = self.project_dir / path
full_path(path) ==
    IF path.abs THEN path
    ELSE [abs |-> TRUE, parts |-> project_dir.parts \o path.parts]

\* the location open() reaches: each ".." leaves the directory reached so far,
\* and the root is its own parent
RECURSIVE Walk(_, _)
Walk(at, s) ==
    IF s = <<>> THEN at
    ELSE IF Head(s) = ".."
         THEN Walk(IF at = <<>> THEN <<>> ELSE SubSeq(at, 1, Len(at) - 1), Tail(s))
         ELSE Walk(Append(at, Head(s)), Tail(s))

Location(path) == Walk(<<>>, path.parts)

InitWrite ==
    /\ tasks = <<>>
    /\ requirement = ""
    /\ file = <<>>
    /\ clock = 1
    /\ pc = "write"
    /\ task = <<>>
    /\ task_count = 0
    /\ max_tasks = 0
    /\ worker = "idle"
    /\ expired = FALSE
    /\ exit_code = 0
    /\ output = <<>>
    /\ has_error = FALSE
    /\ last_op = "none"
    /\ coder_response = "none"
    /\ started = 0
    /\ response = <<>>
    /\ updated_tasks = <<>>
    /\ current_dicts = <<>>
    /\ path_in \in { <<t>> : t \in PathTexts }
    /\ target = <<>>
    /\ args = <<>>
    /\ ret = <<>>
    /\ passed = FALSE
    /\ diff_read = FALSE
    /\ commits = 0

\* the file of one FILE: block is parsed out of the response and written
WriteFile ==
    /\ pc = "write"
    /\ target' = <<full_path(parsed_path(path_in[1]))>>
    /\ pc' = "written"
    /\ UNCHANGED <<tasks, requirement, file, clock, task, task_count, max_tasks,
                   worker, expired, exit_code, output, has_error, coder_response,
                   started, last_op,
                   refineVars, path_in, callVars, gitVars>>

NextWrite == WriteFile

SpecWrite == InitWrite /\ [][NextWrite]_vars
----------------------------------------------------------------------------
(* get_next_task alone (task_manager.py, lines 92-102) on a Task Store          *)
(* holding any short list                                                       *)

\* longest task list of the store get_next_task scans
MaxNextLen == 3

NextTasks ==
    { [id |-> id, title |-> Title, status |-> s, updated_time |-> None]
      : id \in {<<1>>, <<2>>}, s \in ValidStatuses \cup {OtherStatus} }

NextLists == UNION { [1..n -> NextTasks] : n \in 0..MaxNextLen }

InitNextTask ==
    /\ tasks \in NextLists
    /\ requirement = "R0"
    /\ file = save_tasks(requirement, tasks)
    /\ clock = 1
    /\ pc = "next"
    /\ task = <<>>
    /\ task_count = 0
    /\ max_tasks = 0
    /\ worker = "idle"
    /\ expired = FALSE
    /\ exit_code = 0
    /\ output = <<>>
    /\ has_error = FALSE
    /\ last_op = "none"
    /\ coder_response = "none"
    /\ started = 0
    /\ response = <<>>
    /\ updated_tasks = <<>>
    /\ current_dicts = <<>>
    /\ path_in = <<>>
    /\ target = <<>>
    /\ args = <<>>
    /\ ret = <<>>
    /\ passed = FALSE
    /\ diff_read = FALSE
    /\ commits = 0

\* task = self.task_manager.get_next_task()
GetNextTask ==
    /\ pc = "next"
    /\ LET i == get_next_task(tasks)
       IN  task' = IF i = 0 THEN <<>> ELSE <<tasks[i]>>
    /\ pc' = "returned"
    /\ UNCHANGED <<tasks, requirement, file, clock, task_count, max_tasks,
                   worker, expired, exit_code, output, has_error, last_op,
                   coder_response, started, otherVars, gitVars>>

NextNextTask == GetNextTask

SpecNextTask == InitNextTask /\ [][NextNextTask]_vars
----------------------------------------------------------------------------
(* The start of autonomous_coding alone (agent.py, lines 303-333): the          *)
(* construction, plan() on any answer of its one query_json call, and the       *)
(* call of run() that follows a plan() that returned                            *)

\* longest task list the planning oracle proposes when plan() is studied alone
MaxPlanOracleLen == 2

InitPlan ==
    /\ tasks = <<>>
    /\ requirement = ""
    /\ file \in InitFiles
    /\ clock = 1
    /\ pc = "new"
    /\ task = <<>>
    /\ task_count = 0
    /\ max_tasks = 0
    /\ worker = "idle"
    /\ expired = FALSE
    /\ exit_code = 0
    /\ output = <<>>
    /\ has_error = FALSE
    /\ last_op = "none"
    /\ coder_response = "none"
    /\ started = 0
    /\ response \in { <<r>> : r \in JsonResponses(MaxPlanOracleLen) }
    /\ updated_tasks = <<>>
    /\ current_dicts = <<>>
    /\ path_in = <<>>
    /\ target = <<>>
    /\ args = <<>>
    /\ ret = <<>>
    /\ passed = FALSE
    /\ diff_read = FALSE
    /\ commits = 0

NextPlan ==
    \/ Construct
    \/ PlanFails(response[1])
    \/ Plan(response[1])
    \/ \E n \in 0..MaxCeiling : RunStart(n)

SpecPlan == InitPlan /\ [][NextPlan]_vars
----------------------------------------------------------------------------
(* The Task Store operations alone (task_manager.py, lines 64-129): one call    *)
(* of update_task_status, add_task or set_tasks, with any arguments, on a       *)
(* Task Store holding any short list; and one call of refine() (refiner.py,     *)
(* lines 20-111) on the dump of that list, for any answer of its query          *)

\* longest task list of the store an operation is called on
MaxCallStoreLen == 2

\* longest list handed to set_tasks
MaxCallListLen == 2

CallIds == {<<1>>, <<1, 1>>}

CallTasks ==
    { [id |-> id, title |-> Title, status |-> s, updated_time |-> u]
      : id \in CallIds, s \in {"pending", "completed"}, u \in {None, Stamp(0)} }

CallLists == UNION { [1..n -> CallTasks] : n \in 0..MaxCallStoreLen }

\* the SubTask objects handed to add_task: with and without a stamp of their own
AddedTasks ==
    { [id |-> id, title |-> Title, status |-> "pending", updated_time |-> u]
      : id \in Ids, u \in {None, Stamp(0)} }

\* a dict carrying a key SubTask.__init__ does not take
UnknownFieldEntry == [id |-> <<1>>, title |-> Title, priority |-> 1]

\* the lists handed to set_tasks
SetTasksLists ==
    UNION { [1..k -> OracleDicts \cup BadEntries \cup {UnknownFieldEntry}]
            : k \in 0..MaxCallListLen }

Calls ==
    { [op |-> "update_task_status", id |-> id, status |-> s]
      : id \in Ids, s \in ValidStatuses }
    \cup { [op |-> "add_task", task |-> t] : t \in AddedTasks }
    \cup { [op |-> "set_tasks", tasks |-> l, requirement |-> r]
           : l \in SetTasksLists, r \in {"", "R1"} }
    \cup { [op |-> "refine", response |-> r] : r \in JsonResponses(MaxCallListLen) }

\* the manager was constructed on a directory without tasks.json, or the file
\* holds what the last operation saved
InitStore ==
    /\ tasks \in CallLists
    /\ requirement \in {"", "R0"}
    /\ file \in {save_tasks(requirement, tasks)}
               \cup (IF tasks = <<>> /\ requirement = "" THEN {<<>>} ELSE {})
    /\ clock = 1
    /\ pc = "call"
    /\ task = <<>>
    /\ task_count = 0
    /\ max_tasks = 0
    /\ worker = "idle"
    /\ expired = FALSE
    /\ exit_code = 0
    /\ output = <<>>
    /\ has_error = FALSE
    /\ last_op = "none"
    /\ coder_response = "none"
    /\ started = 0
    /\ response = <<>>
    /\ updated_tasks = <<>>
    /\ current_dicts = <<>>
    /\ path_in = <<>>
    /\ target = <<>>
    /\ args \in Calls
    /\ ret = <<>>
    /\ passed = FALSE
    /\ diff_read = FALSE
    /\ commits = 0

\* update_task_status(task_id, status)
UpdateTaskStatus ==
    /\ pc = "call"
    /\ args.op = "update_task_status"
    /\ Store(update_task_status(tasks, args.id, args.status, clock), requirement,
             "update_task_status")
    /\ clock' = clock + 1
    /\ pc' = "returned"
    /\ UNCHANGED <<task, task_count, max_tasks, worker, expired, exit_code,
                   output, has_error, coder_response, started, otherVars, gitVars>>

\* add_task(task)
AddTask ==
    /\ pc = "call"
    /\ args.op = "add_task"
    /\ Store(add_task(tasks, args.task, clock), requirement, "add_task")
    /\ clock' = clock + 1
    /\ pc' = "returned"
    /\ UNCHANGED <<task, task_count, max_tasks, worker, expired, exit_code,
                   output, has_error, coder_response, started, otherVars, gitVars>>

\* set_tasks(tasks, requirement) returns
SetTasks ==
    /\ pc = "call"
    /\ args.op = "set_tasks"
    /\ ~set_tasks_raises(args.tasks)
    /\ Store(set_tasks_list(tasks, args.tasks),
             IF args.requirement # "" THEN args.requirement ELSE requirement,
             "set_tasks")
    /\ pc' = "returned"
    /\ UNCHANGED <<clock, task, task_count, max_tasks, worker, expired,
                   exit_code, output, has_error, coder_response, started,
                   otherVars, gitVars>>

\* a set_tasks that raises with the tasks built so far already stored
SetTasksRaises_keeps_prefix ==
    /\ pc = "call"
    /\ args.op = "set_tasks"
    /\ set_tasks_raises(args.tasks)
    /\ LET k == CHOOSE i \in 1..Len(args.tasks) :
                    /\ ~CanConstruct(args.tasks[i])
                    /\ \A j \in 1..(i-1) : CanConstruct(args.tasks[j])
       IN  tasks' = set_tasks_list(tasks, SubSeq(args.tasks, 1, k - 1))
    /\ pc' = "raised"
    /\ UNCHANGED <<requirement, file, clock, task, task_count, max_tasks,
                   worker, expired, exit_code, output, has_error, last_op,
                   coder_response, started, otherVars, gitVars>>

\* set_tasks(tasks, requirement) raises before self.tasks is assigned
SetTasksRaises ==
    /\ pc = "call"
    /\ args.op = "set_tasks"
    /\ set_tasks_raises(args.tasks)
    /\ pc' = "raised"
    /\ UNCHANGED <<tasks, requirement, file, clock, task, task_count, max_tasks,
                   worker, expired, exit_code, output, has_error, last_op,
                   coder_response, started, otherVars, gitVars>>

\* refine(tasks=current_tasks_dict, ...) returns
RefineReturns ==
    /\ pc = "call"
    /\ args.op = "refine"
    /\ ret' = <<refine(current_tasks_dict(tasks), args.response).ret>>
    /\ pc' = "returned"
    /\ UNCHANGED <<tasks, requirement, file, clock, task, task_count, max_tasks,
                   worker, expired, exit_code, output, has_error, last_op,
                   coder_response, started, refineVars, fileVars, args, gitVars>>

NextStore ==
    UpdateTaskStatus \/ AddTask \/ SetTasks \/ SetTasksRaises \/ RefineReturns

SpecStore == InitStore /\ [][NextStore]_vars
----------------------------------------------------------------------------
(* query_json alone (coding_tool.py, lines 91-120), called without a deadline   *)
(* on any short text printed by opencode.  The texts are over an alphabet of    *)
(* braces, brackets, a digit, a quote and a letter; with it a JSON value is    *)
(* the object {}, a list of at most one value, a number or a string.  A parsed  *)
(* value is represented by its kind and the text it was parsed from.            *)

\* longest text opencode prints
MaxTextLen == 4

Chars == {"{", "}", "[", "]", "1", "\"", "a"}

Texts == UNION { [1..n -> Chars] : n \in 0..MaxTextLen }

\* str.find: 0-based index of the first occurrence, -1 when there is none
find(text, c) ==
    IF \E i \in 1..Len(text) : text[i] = c
    THEN (CHOOSE i \in 1..Len(text) :
             text[i] = c /\ \A j \in 1..(i-1) : text[j] # c) - 1
    ELSE -1

\* str.rfind: 0-based index of the last occurrence, -1 when there is none
rfind(text, c) ==
    IF \E i \in 1..Len(text) : text[i] = c
    THEN (CHOOSE i \in 1..Len(text) :
             text[i] = c /\ \A j \in (i+1)..Len(text) : text[j] # c) - 1
    ELSE -1

\* text[start:end] for 0 <= start, 0 <= end <= len(text)
slice(text, start, end) == SubSeq(text, start + 1, end)

IsNumber(text) == Len(text) > 0 /\ \A i \in 1..Len(text) : text[i] = "1"

IsString(text) ==
    /\ Len(text) >= 2
    /\ text[1] = "\""
    /\ text[Len(text)] = "\""
    /\ \A i \in 2..(Len(text) - 1) : text[i] # "\""

\* the texts json.loads accepts
RECURSIVE IsJson(_)
IsJson(text) ==
    \/ IsNumber(text)
    \/ IsString(text)
    \/ text = <<"{", "}">>
    \/ /\ Len(text) >= 2
       /\ text[1] = "["
       /\ text[Len(text)] = "]"
       /\ Len(text) = 2 \/ IsJson(SubSeq(text, 2, Len(text) - 1))

JsonKind(text) ==
    IF text[1] = "{" THEN "object"
    ELSE IF text[1] = "[" THEN "list"
    ELSE IF text[1] = "\"" THEN "string"
    ELSE "number"

\* json.loads: the value, or JSONDecodeError
json_loads(text) ==
    IF IsJson(text)
    THEN [raised |-> FALSE, kind |-> JsonKind(text), value |-> text]
    ELSE [raised |-> TRUE]

\* _query_json_internal on the text opencode printed
query_json_internal(response_text) ==
    LET start == find(response_text, "{")
        end   == rfind(response_text, "}") + 1
    IN  IF start # -1 /\ end # 0
        THEN json_loads(slice(response_text, start, end))
        ELSE json_loads(response_text)

\* _run_opencode: it raises (<<>>), or returns the text printed (<<text>>)
OpencodeOutcomes == {<<>>} \cup { <<t>> : t \in Texts }

InitJson ==
    /\ tasks = <<>>
    /\ requirement = ""
    /\ file = <<>>
    /\ clock = 1
    /\ pc = "call"
    /\ task = <<>>
    /\ task_count = 0
    /\ max_tasks = 0
    /\ worker = "idle"
    /\ expired = FALSE
    /\ exit_code = 0
    /\ output = <<>>
    /\ has_error = FALSE
    /\ last_op = "none"
    /\ coder_response = "none"
    /\ started = 0
    /\ response = <<>>
    /\ updated_tasks = <<>>
    /\ current_dicts = <<>>
    /\ path_in = <<>>
    /\ target = <<>>
    /\ args \in { [op |-> "query_json", stdout |-> o] : o \in OpencodeOutcomes }
    /\ ret = <<>>
    /\ passed = FALSE
    /\ diff_read = FALSE
    /\ commits = 0

\* query_json returns what json.loads returned
QueryJsonReturns ==
    /\ pc = "call"
    /\ args.op = "query_json"
    /\ args.stdout # <<>>
    /\ ~query_json_internal(args.stdout[1]).raised
    /\ ret' = <<query_json_internal(args.stdout[1])>>
    /\ pc' = "returned"
    /\ UNCHANGED <<tasks, requirement, file, clock, task, task_count, max_tasks,
                   worker, expired, exit_code, output, has_error, last_op,
                   coder_response, started, refineVars, fileVars, args, gitVars>>

\* _run_opencode or json.loads raises: the error reaches the caller
QueryJsonRaises ==
    /\ pc = "call"
    /\ args.op = "query_json"
    /\ IF args.stdout = <<>> THEN TRUE
       ELSE query_json_internal(args.stdout[1]).raised
    /\ pc' = "raised"
    /\ UNCHANGED <<tasks, requirement, file, clock, task, task_count, max_tasks,
                   worker, expired, exit_code, output, has_error, last_op,
                   coder_response, started, otherVars, gitVars>>

NextJson == QueryJsonReturns \/ QueryJsonRaises

SpecJson == InitJson /\ [][NextJson]_vars
----------------------------------------------------------------------------
(* The timeout decomposition alone (agent.py, lines 185-207): the first         *)
(* iteration of run() stands after the TimeoutError of the implementation      *)
(* query, the selected task marked failed, for any short store and any answer  *)
(* of the decomposition query                                                   *)

\* longest task list of the store when the implementation query timed out
MaxBreakdownStoreLen == 2

BreakdownLists ==
    { l \in UNION { [1..n -> StoreTasks] : n \in 1..MaxBreakdownStoreLen } :
        get_next_task(l) # 0 }

InitBreakdown ==
    /\ \E l \in BreakdownLists :
          /\ task = <<l[get_next_task(l)]>>
          /\ tasks = update_task_status(l, l[get_next_task(l)].id, "failed", 2)
    /\ requirement = "R0"
    /\ file = save_tasks(requirement, tasks)
    /\ clock = 3
    /\ pc = "timed_out"
    /\ task_count = 0
    /\ max_tasks \in 1..MaxCeiling
    /\ worker = "idle"
    /\ expired = TRUE
    /\ exit_code = 0
    /\ output = <<>>
    /\ has_error = FALSE
    /\ last_op = "update_task_status"
    /\ coder_response = "none"
    /\ started = 1
    /\ response \in { <<r>> : r \in JsonResponses(MaxOracleLen) }
    /\ updated_tasks = <<>>
    /\ current_dicts = <<>>
    /\ path_in = <<>>
    /\ target = <<>>
    /\ args = <<>>
    /\ ret = <<>>
    /\ passed = FALSE
    /\ diff_read = FALSE
    /\ commits = 0

NextBreakdown ==
    \/ BreakdownSubmit
    \/ WorkerFinish
    \/ DeadlineExpire
    \/ BreakdownReturn(response[1])
    \/ BreakdownTimeout

SpecBreakdown == InitBreakdown /\ [][NextBreakdown]_vars
----------------------------------------------------------------------------
(* Claims *)

\* the status stored under an id: that of the entry update_task_status reaches
StatusOf(ts, id) == ts[FirstIndexOf(ts, id)].status

\* C1: a task that is completed keeps the status completed through set_tasks:
\* after every step that ends in set_tasks (the planning replace and the
\* Refiner-driven replace), every task stored under the id of a task that was
\* completed before the step is completed.
C1_CompletedStickyOnReplace ==
    [][last_op' = "set_tasks" =>
         \A i \in 1..Len(tasks) :
             tasks[i].status = "completed" =>
                 \A j \in 1..Len(tasks') :
                     tasks'[j].id = tasks[i].id => tasks'[j].status = "completed"]_vars

\* C2: end-to-end timeout scenario.  After planning stored task "1" alone and
\* the first iteration timed out and appended the children "1-1" and "1-2" as
\* pending, task "1" is failed and the task the next iteration selects
\* (get_next_task) is "1-1".
C2_AfterTimeoutIteration ==
    /\ pc = "loop"
    /\ requirement = "R1"
    /\ task_count = 1
    /\ last_op = "add_task"
    /\ Len(tasks) = 3
    /\ tasks[1].id = <<1>>
    /\ tasks[2].id = <<1, 1>> /\ tasks[2].status = "pending"
    /\ tasks[3].id = <<1, 2>> /\ tasks[3].status = "pending"

C2_TimeoutScenario ==
    C2_AfterTimeoutIteration =>
        /\ tasks[1].status = "failed"
        /\ tasks[get_next_task(tasks)].id = <<1, 1>>

\* C3: in every reachable state no two tasks of the store have the same id.
C3_UniqueIds ==
    \A i, j \in 1..Len(tasks) : i # j => tasks[i].id # tasks[j].id

\* C4: in every reachable state every task of the store has one of the four
\* statuses pending, in_progress, completed, failed.
C4_StatusDomain ==
    \A i \in 1..Len(tasks) : tasks[i].status \in ValidStatuses

\* C5: cancellable oracle call.  Once the deadline of a call has expired, the
\* caller gets the timeout signal and goes on without waiting for the call in
\* flight: the step that delivers TimeoutError is enabled whatever the worker
\* is doing.
C5_TimeoutWithoutWaiting ==
    /\ pc = "query_exit" => ENABLED QueryTimeout
    /\ pc = "breakdown_exit" => ENABLED BreakdownTimeout

\* C6: the file written for a path of an oracle response lies inside the
\* project root, whatever the path (relative, absolute inside or outside the
\* root, with or without parent-directory components).
C6_WriteInsideRoot ==
    target # <<>> => IsPrefix(project_dir.parts, Location(target[1]))

\* C7: pass policy.  The step that decides on the Verifier's (exit code,
\* output) marks the task completed if the exit code is 0 and the output
\* contains none of the nine markers, and marks it failed in every other case.
C7_Markers ==
    { <<"e", "r", "r", "o", "r">>,
      <<"E", "r", "r", "o", "r">>,
      <<"E", "R", "R", "O", "R">>,
      <<"f", "a", "i", "l", "e", "d">>,
      <<"F", "a", "i", "l", "e", "d">>,
      <<"F", "A", "I", "L", "E", "D">>,
      <<"e", "x", "c", "e", "p", "t", "i", "o", "n">>,
      <<"E", "x", "c", "e", "p", "t", "i", "o", "n">>,
      <<"E", "X", "C", "E", "P", "T", "I", "O", "N">> }

C7_Pass(e, text) == e = 0 /\ \A m \in C7_Markers : ~Contains(text, m)

C7_PassPolicy ==
    [][pc = "verdict" =>
         /\ C7_Pass(exit_code, output) => StatusOf(tasks', task[1].id) = "completed"
         /\ ~C7_Pass(exit_code, output) => StatusOf(tasks', task[1].id) = "failed"]_vars

\* C7 witness: exit code 0 with a marker in the output, and the task is failed
C7_Witness ==
    /\ pc = "refine"
    /\ exit_code = 0
    /\ has_error
    /\ StatusOf(tasks, task[1].id) = "failed"

\* C8: refinement no-op guarantee.  When the Refiner's query fails, or the
\* processing of its answer raises, refine() returns a list equal to its
\* input, the caller's list is as before the call, and the refinement step
\* leaves the store and the persisted document unchanged.
C8_RefineFails(r) ==
    IF r.kind = "raise" THEN TRUE
    ELSE IF "tasks" \notin DOMAIN r THEN FALSE
    ELSE \E i \in 1..Len(r.tasks) : ~IsDict(r.tasks[i])

C8_RefineNoOp ==
    [][C8_RefineFails(response[1]) =>
         /\ tasks' = tasks /\ requirement' = requirement /\ file' = file
         /\ pc' # "raised"
         /\ pc = "refine" =>
               /\ updated_tasks' = current_tasks_dict(tasks)
               /\ current_dicts' = current_tasks_dict(tasks)]_vars

\* C8 witness: the answer's first entry names a stored task and was patched
\* before its second entry, which is no dict, made the processing raise
C8_Witness ==
    /\ pc = "kept"
    /\ "tasks" \in DOMAIN response[1]
    /\ Len(response[1].tasks) = 2
    /\ IsDict(response[1].tasks[1])
    /\ "status" \notin DOMAIN response[1].tasks[1]
    /\ ~IsDict(response[1].tasks[2])
    /\ Len(tasks) = 1
    /\ tasks[1].id = response[1].tasks[1].id
    /\ tasks[1].status = "completed"

\* C9: Refiner sticky completion.  After refine() and the replace that follows
\* it (steps 8-9 of an iteration), every task stored under the id of a task
\* that was completed before the refinement is completed.
C9_RefinerStickyCompletion ==
    [][(pc = "refine" /\ last_op' = "set_tasks") =>
         \A i \in 1..Len(tasks) :
             tasks[i].status = "completed" =>
                 \A j \in 1..Len(tasks') :
                     tasks'[j].id = tasks[i].id => tasks'[j].status = "completed"]_vars

\* C10: updated_time is never cleared by a replacement: after every step that
\* ends in set_tasks, every task stored under the id of a task whose
\* updated_time was set before the step has an updated_time.
C10_UpdatedTimeKept ==
    [][last_op' = "set_tasks" =>
         \A i \in 1..Len(tasks) :
             tasks[i].updated_time # None =>
                 \A j \in 1..Len(tasks') :
                     tasks'[j].id = tasks[i].id => tasks'[j].updated_time # None]_vars

\* C11: round-trip persistence.  After every step that ends in set_tasks,
\* load_tasks of the persisted document on a fresh manager gives the
\* requirement and the task list, in order and field by field, that the
\* manager holds.
C11_RoundTrip ==
    [][last_op' = "set_tasks" =>
         load_tasks(file') = Doc(requirement', tasks')]_vars

\* C11 witness: set_tasks has stored two tasks, one stamped and one without
\* updated_time, and a fresh load reproduces them
C11_Witness ==
    /\ last_op = "set_tasks"
    /\ Len(tasks) = 2
    /\ tasks[1].updated_time # None
    /\ tasks[2].updated_time = None
    /\ load_tasks(file) = Doc(requirement, tasks)

\* C12: persist-after-mutation.  From the construction of the manager on, in
\* every state (so between any two Task Store operations) loading the
\* persisted document gives exactly the in-memory requirement and tasks.
C12_PersistAfterMutation ==
    pc # "new" => load_tasks(file) = Doc(requirement, tasks)

\* C12 witness: add_task has appended a child and the document holds it
C12_Witness ==
    /\ last_op = "add_task"
    /\ Len(tasks) >= 2
    /\ load_tasks(file) = Doc(requirement, tasks)

\* C13: get_next_task returns the first task in stored order whose status is
\* pending, failed or in_progress, returns none exactly when no task has one
\* of the three statuses, and leaves the store and its document as they were.
C13_Selectable(t) == t.status \in {"pending", "failed", "in_progress"}

C13_FirstActionable ==
    [][pc = "next" =>
         /\ tasks' = tasks /\ requirement' = requirement /\ file' = file
         /\ task' = <<>> <=> \A i \in 1..Len(tasks) : ~C13_Selectable(tasks[i])
         /\ task' # <<>> =>
               \E i \in 1..Len(tasks) :
                   /\ tasks[i] = task'[1]
                   /\ C13_Selectable(tasks[i])
                   /\ \A j \in 1..(i-1) : ~C13_Selectable(tasks[j])]_vars

\* C13 witness: over [1: completed, 2: pending] the task returned is 2
C13_Witness ==
    /\ pc = "returned"
    /\ Len(tasks) = 2
    /\ tasks[1].id = <<1>> /\ tasks[1].status = "completed"
    /\ tasks[2].id = <<2>> /\ tasks[2].status = "pending"
    /\ task # <<>>
    /\ task[1].id = <<2>>

\* C14: hierarchical id derivation on timeout.  Every task that the
\* decomposition of the timed-out task P appends has an id P-suffix (P is a
\* proper prefix of the id's tokens), and differs in id from every other task
\* of the store, appended or already there.
C14_HierarchicalIds ==
    [][last_op' = "add_task" =>
         \A k \in (Len(tasks) + 1)..Len(tasks') :
             /\ IsPrefix(task[1].id, tasks'[k].id)
             /\ tasks'[k].id # task[1].id
             /\ \A j \in 1..Len(tasks') : j # k => tasks'[j].id # tasks'[k].id]_vars

\* C15: timeout protocol ordering.  From the moment the timeout of the
\* implementation query is handled and all through the decomposition, the
\* task is failed in the store and in the persisted document; the iteration
\* then goes to its end without passing through the file write, the Verifier,
\* the commit or the refinement; and whatever the decomposition does (answer,
\* error, timeout), the task is failed at the end and the loop has advanced.
C15_TimeoutPcs == {"query_exit", "timed_out", "breakdown", "breakdown_exit"}

C15_TimeoutProtocol ==
    /\ [](pc \in {"timed_out", "breakdown", "breakdown_exit"} =>
             /\ StatusOf(tasks, task[1].id) = "failed"
             /\ load_tasks(file).tasks = tasks)
    /\ [][(pc \in C15_TimeoutPcs) =>
             pc' \in C15_TimeoutPcs \cup {"loop", "done"}]_vars
    /\ [][(pc \in {"breakdown", "breakdown_exit"} /\ pc' \in {"loop", "done"}) =>
             /\ StatusOf(tasks', task[1].id) = "failed"
             /\ task_count' = task_count + 1]_vars

\* C15 witness: the implementation query timed out, the task was persisted as
\* failed, and the decomposition query has timed out in its turn
C15_Witness ==
    /\ pc = "breakdown_exit"
    /\ expired
    /\ worker = "done"
    /\ StatusOf(tasks, task[1].id) = "failed"
    /\ load_tasks(file).tasks = tasks

\* C16: non-timeout oracle failure.  When the implementation query ends
\* without a timeout and either failed (coder_response is still None) or
\* returned an empty response, that step marks the task failed and ends the
\* iteration: nothing is decomposed, written, verified, committed or refined.
C16_NonTimeoutFailure ==
    [][(/\ pc = "query"
        /\ pc' \notin {"query", "query_exit"}
        /\ coder_response' \in {"none", "empty"}) =>
         /\ StatusOf(tasks', task[1].id) = "failed"
         /\ pc' \in {"loop", "done"}
         /\ task_count' = task_count + 1]_vars

\* C17: unexpected-error absorption.  Once run() has started, no error of an
\* iteration reaches its caller; and a step in which an error is raised between
\* the in_progress mark and the end of the refinement (the iteration ends from
\* the context building, the query, the file write, the Verifier or the
\* commit, or set_tasks raises after refine) leaves the task failed when it is
\* still in the store, counts the iteration, and hands over to the head of
\* the loop, which stops only on the ceiling or for want of an actionable task.
C17_RaisingStep ==
    \/ /\ pc \in {"context", "query", "files", "verify", "commit", "commit_msg",
                  "committed"}
       /\ pc' \in {"loop", "done"}
    \/ pc = "refine" /\ last_op' = "update_task_status"

C17_ErrorAbsorbed ==
    /\ [][pc \notin {"new", "constructed"} => pc' # "aborted"]_vars
    /\ [][C17_RaisingStep =>
             /\ HasId(tasks', task[1].id) => StatusOf(tasks', task[1].id) = "failed"
             /\ task_count' = task_count + 1
             /\ pc' \in {"loop", "done"}
             /\ pc' = "done" =>
                   task_count' >= max_tasks \/ get_next_task(tasks') = 0]_vars

\* C17 witness: an error raised after the verdict (by the commit or by
\* set_tasks) was absorbed: the task got its third stamp of the iteration,
\* failed, and the loop is at its head for the next iteration
C17_Witness ==
    /\ pc = "loop"
    /\ task_count = 1
    /\ started = 1
    /\ last_op = "update_task_status"
    /\ clock = 4
    /\ Len(tasks) >= 1
    /\ tasks[1].status = "failed"
    /\ tasks[1].updated_time = Stamp(3)

\* C18: the Refiner is always invoked after verification.  An iteration in
\* which the Verifier has returned (it stands at the verdict, at the commit or
\* at the refinement) ends only by the refinement step: neither the verdict
\* nor a failure on the commit path ends it.
C18_RefinerAlwaysInvoked ==
    [][(/\ pc \in {"verdict", "commit", "commit_msg", "committing", "committed",
                   "refine"}
        /\ pc' \in {"loop", "done"}) =>
         pc = "refine"]_vars

\* C19: run end condition.  Whenever run() has returned, the ceiling is
\* reached or no task of the store is pending, failed or in_progress.  At the
\* end of the refinement of a task that failed verification, the loop stops
\* when no such task remains, and goes on to another iteration when one
\* remains and the ceiling is not reached.
C19_NoneActionable(ts) ==
    \A i \in 1..Len(ts) : ts[i].status \notin {"pending", "failed", "in_progress"}

C19_RunEnd ==
    /\ [](pc = "done" => task_count >= max_tasks \/ C19_NoneActionable(tasks))
    /\ [][(/\ pc = "refine"
            /\ pc' \in {"loop", "done"}
            /\ (exit_code # 0 \/ has_error)) =>
             /\ C19_NoneActionable(tasks') => pc' = "done"
             /\ (~C19_NoneActionable(tasks') /\ task_count + 1 < max_tasks) =>
                   pc' = "loop"]_vars

\* C19 witness: run() has returned below the ceiling from the stop test that
\* follows the refinement of a failed task: the iteration it started is not
\* counted and no task is actionable
C19_Witness ==
    /\ pc = "done"
    /\ started = task_count + 1
    /\ task_count + 1 < max_tasks
    /\ Len(tasks) >= 1
    /\ C19_NoneActionable(tasks)

\* C20: bounded run.  With the ceiling max_tasks, run() marks a task
\* in_progress at most max_tasks times; at the head of the loop every
\* iteration started has been counted exactly once, whatever path it took;
\* and, every external call returning, run() returns.
C20_BoundedRun ==
    /\ [](started <= max_tasks)
    /\ [](pc = "loop" => task_count = started)
    /\ [](pc = "done" => started \in {task_count, task_count + 1})
    /\ (pc = "ready" ~> pc = "done")

\* C20 witness: run() has returned on the ceiling after two iterations, with
\* an actionable task left in the store
C20_Witness ==
    /\ pc = "done"
    /\ max_tasks = 2
    /\ started = 2
    /\ task_count = 2
    /\ get_next_task(tasks) # 0

\* ---- C21 ----
\* the planning answers the claim calls a failure: the query failed, the
\* answer lacks a tasks list, or a proposed task is no dict or lacks a
\* required field
C21_Malformed(d) == ~IsDict(d) \/ ~({"id", "title"} \subseteq DOMAIN d)

C21_PlanFailure(resp) ==
    IF resp.kind = "raise" THEN TRUE
    ELSE IF "tasks" \notin DOMAIN resp THEN TRUE
    ELSE \E i \in 1..Len(resp.tasks) : C21_Malformed(resp.tasks[i])

\* C21: a planning failure is fatal and leaves the state untouched: when
\* the one planning query fails, its answer has no tasks list, or a proposed
\* task is malformed, plan() ends in the propagated error with the in-memory
\* tasks and requirement and the persisted file as they were before it, and
\* run() is never started afterwards
C21_PlanFailureFatal ==
    [][/\ (pc = "constructed" /\ C21_PlanFailure(response[1]))
            => /\ pc' = "aborted"
               /\ tasks' = tasks
               /\ requirement' = requirement
               /\ file' = file
       /\ (pc = "aborted") => (pc' = "aborted")]_vars

\* a requirement loaded from the file, a first task well formed and a second
\* malformed: plan() has aborted
C21_Witness ==
    /\ pc = "aborted"
    /\ requirement # ""
    /\ tasks # <<>>
    /\ "tasks" \in DOMAIN response[1]
    /\ Len(response[1].tasks) = 2
    /\ ~C21_Malformed(response[1].tasks[1])
    /\ C21_Malformed(response[1].tasks[2])

\* ---- C22 ----
\* C22: update_task_status(id, status) changes only the named task: when a
\* task with the id exists its status becomes the given status and its
\* updated_time is stamped, while the order of the list, every other task and
\* the requirement are unchanged; when no task has the id the call returns
\* without an error and the Project State, in memory and as the file loads,
\* is unchanged
C22_StatusFrame ==
    [][(pc = "call" /\ args.op = "update_task_status")
          => /\ pc' = "returned"
             /\ requirement' = requirement
             /\ Len(tasks') = Len(tasks)
             /\ IF HasId(tasks, args.id)
                THEN LET k == FirstIndexOf(tasks, args.id)
                     IN  /\ tasks'[k] = [id           |-> tasks[k].id,
                                         title        |-> tasks[k].title,
                                         status       |-> args.status,
                                         updated_time |-> Stamp(clock)]
                         /\ \A i \in 1..Len(tasks) : i # k => tasks'[i] = tasks[i]
                ELSE tasks' = tasks
             /\ load_tasks(file') = Doc(requirement, tasks')]_vars

\* the second of two tasks was named: it carries the status and the stamp,
\* the first one is as it was loaded
C22_Witness ==
    /\ pc = "returned"
    /\ args.op = "update_task_status"
    /\ Len(tasks) = 2
    /\ tasks[1].id # args.id
    /\ tasks[1].updated_time = Stamp(0)
    /\ tasks[2].id = args.id
    /\ tasks[2].status = args.status
    /\ args.status = "failed"
    /\ tasks[2].updated_time = Stamp(1)

\* ---- C23 ----
\* the updated_time stored under an id: that of the entry update_task_status reaches
C23_TimeOf(ts, id) == ts[FirstIndexOf(ts, id)].updated_time

\* C23: updated_time is set whenever status changes: for every id and every
\* step that changes the status stored under it (update_task_status, or a
\* set_tasks whose list gives the id a different status), the updated_time
\* under the id after the step is a stamp taken at that step, not earlier
\* than its previous value
C23_StampOnStatusChange ==
    [][\A id \in Ids :
          (/\ HasId(tasks, id)
           /\ HasId(tasks', id)
           /\ StatusOf(tasks', id) # StatusOf(tasks, id))
          => /\ C23_TimeOf(tasks', id) # None
             /\ C23_TimeOf(tasks', id)[1] >= clock
             /\ C23_TimeOf(tasks, id) # None
                  => C23_TimeOf(tasks', id)[1] >= C23_TimeOf(tasks, id)[1]]_vars

\* ---- C24 ----
\* C24: commit only on pass, after completion is recorded.  A step that calls
\* the Change Committer's commit is the first such call of its iteration, is
\* made in an iteration whose verdict was a pass (exit code 0 and no error
\* marker), finds the task completed in the store and in the file, and comes
\* after the diff and the untracked-file list were read; so no iteration
\* holds more than one commit, and one whose verdict was a failure, or that
\* ended on a timeout or an oracle failure, holds none.
C24_CommitOnlyOnPass ==
    /\ [][commits' # commits /\ commits' # 0 =>
             /\ commits = 0
             /\ passed
             /\ Passed(exit_code, has_error)
             /\ diff_read
             /\ StatusOf(tasks, task[1].id) = "completed"
             /\ file = save_tasks(requirement, tasks)]_vars
    /\ [](commits <= 1)
    /\ [](commits > 0 => passed)

\* the commit of a passing iteration has been called
C24_Witness ==
    /\ pc = "committed"
    /\ commits = 1
    /\ passed
    /\ diff_read
    /\ StatusOf(tasks, task[1].id) = "completed"

\* ---- C25 ----
\* the updated_time values the list holds under an id
C25_TimesOf(ts, id) == { ts[j].updated_time : j \in { k \in 1..Len(ts) : ts[k].id = id } }

\* refine() runs its loop to the end on the answer
C25_RefineCompletes(resp) ==
    /\ resp.kind = "dict"
    /\ "tasks" \in DOMAIN resp
    /\ \A i \in 1..Len(resp.tasks) : IsDict(resp.tasks[i])

\* C25: timestamp carry-over on omission.  For every incoming task that omits
\* updated_time: when its id matches an existing task, the task set_tasks
\* stores for it, and the one refine() returns for it, carry the existing
\* task's updated_time; when its id matches none, set_tasks stores it with
\* updated_time None and refine() returns it without the key.
C25_CarryOver ==
    /\ [][(pc = "call" /\ args.op = "set_tasks" /\ pc' = "returned") =>
             /\ Len(tasks') = Len(args.tasks)
             /\ \A i \in 1..Len(args.tasks) :
                   "updated_time" \notin DOMAIN args.tasks[i] =>
                      IF HasId(tasks, args.tasks[i].id)
                      THEN tasks'[i].updated_time \in C25_TimesOf(tasks, args.tasks[i].id)
                      ELSE tasks'[i].updated_time = None]_vars
    /\ [][(/\ pc = "call"
           /\ args.op = "refine"
           /\ C25_RefineCompletes(args.response)) =>
             /\ Len(ret'[1]) = Len(args.response.tasks)
             /\ \A i \in 1..Len(args.response.tasks) :
                   LET d == args.response.tasks[i]
                   IN  ("updated_time" \notin DOMAIN d /\ "id" \in DOMAIN d) =>
                          IF HasId(tasks, d.id)
                          THEN /\ "updated_time" \in DOMAIN ret'[1][i]
                               /\ ret'[1][i].updated_time \in C25_TimesOf(tasks, d.id)
                          ELSE "updated_time" \notin DOMAIN ret'[1][i]]_vars

\* set_tasks was given two tasks without updated_time: the first took the
\* stamp of the stored task with its id, the second matched none
C25_Witness ==
    /\ pc = "returned"
    /\ args.op = "set_tasks"
    /\ Len(args.tasks) = 2
    /\ "updated_time" \notin DOMAIN args.tasks[1]
    /\ "updated_time" \notin DOMAIN args.tasks[2]
    /\ args.tasks[1].id = <<1>>
    /\ args.tasks[2].id = <<1, 2>>
    /\ tasks[1].updated_time = Stamp(0)
    /\ tasks[2].updated_time = None

\* ---- C26 ----
\* C26: add_task inserts the task at the end of the order and changes nothing
\* else: after add_task(t) the list is the previous list followed by t, the
\* requirement is unchanged, t carries a stamp taken by the call when it had
\* no updated_time and its own otherwise, and the file holds the result
C26_AddFrame ==
    [][(pc = "call" /\ args.op = "add_task") =>
         /\ pc' = "returned"
         /\ requirement' = requirement
         /\ Len(tasks') = Len(tasks) + 1
         /\ SubSeq(tasks', 1, Len(tasks)) = tasks
         /\ tasks'[Len(tasks')] =
               [id           |-> args.task.id,
                title        |-> args.task.title,
                status       |-> args.task.status,
                updated_time |-> IF args.task.updated_time = None
                                 THEN Stamp(clock)
                                 ELSE args.task.updated_time]
         /\ file' = save_tasks(requirement, tasks')
         /\ load_tasks(file') = Doc(requirement, tasks')]_vars

\* a task without updated_time was added behind two stored ones and stamped
C26_Witness ==
    /\ pc = "returned"
    /\ args.op = "add_task"
    /\ args.task.updated_time = None
    /\ Len(tasks) = 3
    /\ tasks[1].updated_time = Stamp(0)
    /\ tasks[2].status = "completed"
    /\ tasks[3].id = args.task.id
    /\ tasks[3].updated_time = Stamp(1)

\* ---- C27 ----
\* C27: verification failures are reported to the Refiner as failures.  When
\* refine() is about to be called in an iteration whose verdict marked the
\* task failed (non-zero exit code, or exit code 0 with an error marker), the
\* summary handed to it says failed and the prompt carries the instruction to
\* decompose the failed task; when the verdict marked it completed, the
\* summary says passed.
C27_FailureReported ==
    pc = "refine" =>
       IF passed
       THEN result_context(exit_code) = "passed"
       ELSE /\ result_context(exit_code) = "failed"
            /\ critical_instruction(exit_code)

\* ---- C28 ----
\* C28: query_json returns a structured object or fails: for every text of
\* the oracle, the call either returns the JSON object parsed from the span
\* between the first "{" and the last "}" of the text, or fails with an
\* error; it never returns a list, a number or a string
C28_ObjectOrFail ==
    [][(pc = "call" /\ args.op = "query_json") =>
         \/ pc' = "raised"
         \/ /\ pc' = "returned"
            /\ ret'[1].kind = "object"
            /\ ret'[1].value =
                  slice(args.stdout[1], find(args.stdout[1], "{"),
                        rfind(args.stdout[1], "}") + 1)]_vars

\* ---- C29 ----
\* C29: within a run, once an iteration has marked its task completed
\* (verification passed), no later step sets that task failed or in_progress:
\* a failure of the diff, of the commit-message query, of the commit, of the
\* refinement or of the replace leaves the task completed while it is in the
\* store, and get_next_task does not select it again
C29_CompletedStays ==
    [][(passed /\ task # <<>>) =>
         /\ HasId(tasks', task[1].id) =>
               StatusOf(tasks', task[1].id) \notin {"failed", "in_progress"}
         /\ (pc' = "loop" /\ get_next_task(tasks') # 0) =>
               tasks'[get_next_task(tasks')].id # task[1].id]_vars

\* ---- C30 ----
\* C30: a task's status becomes completed only through a passing verification
\* of that task: after the store was loaded, every step that leaves an id
\* completed which was not completed before is the verdict of an iteration
\* that selected that task and whose test command returned exit code 0 with
\* no error marker; a list proposed by the oracle (planning, decomposition,
\* refinement) neither introduces a completed task nor completes one
C30_CompletedOnlyByPass ==
    [][pc # "new" =>
         \A id \in Ids :
            (/\ HasId(tasks', id)
             /\ StatusOf(tasks', id) = "completed"
             /\ ~(HasId(tasks, id) /\ StatusOf(tasks, id) = "completed"))
            => /\ pc = "verdict"
               /\ task[1].id = id
               /\ Passed(exit_code, has_error')]_vars

\* ---- C31 ----
\* the children the decomposition answer proposes
C31_Proposed(resp) ==
    IF resp.kind = "dict" /\ "tasks" \in DOMAIN resp THEN resp.tasks ELSE <<>>

\* C31: timeout decomposition is all-or-nothing: when the decomposition
\* query has returned and the iteration ends, either every proposed child
\* stands appended to the store, in order, behind the tasks held before, or
\* the task list is the one held before (the timed-out task failed); the
\* store never holds only a prefix of the proposed children
C31_AllOrNothing ==
    [][(pc = "breakdown" /\ pc' \in {"loop", "done"}) =>
         LET proposed == C31_Proposed(response[1])
         IN  \/ tasks' = tasks
             \/ /\ \A i \in 1..Len(proposed) : CanConstruct(proposed[i])
                /\ Len(tasks') = Len(tasks) + Len(proposed)
                /\ SubSeq(tasks', 1, Len(tasks)) = tasks
                /\ \A i \in 1..Len(proposed) :
                      tasks'[Len(tasks) + i].id = proposed[i].id]_vars

\* ---- C32 ----
\* an entry that cannot be turned into a task: a required field is missing
\* or a field is unknown
C32_BadEntry(d) ==
    \/ ~({"id", "title"} \subseteq DOMAIN d)
    \/ ~(DOMAIN d \subseteq SubTaskFields)

\* C32: set_tasks is atomic on failure: given a list in which some entry
\* cannot be turned into a task, at any position, the call raises and the
\* in-memory task list, the requirement and the persisted document are as
\* before the call
C32_AtomicOnFailure ==
    [][(/\ pc = "call"
        /\ args.op = "set_tasks"
        /\ \E i \in 1..Len(args.tasks) : C32_BadEntry(args.tasks[i])) =>
         /\ pc' = "raised"
         /\ tasks' = tasks
         /\ requirement' = requirement
         /\ file' = file]_vars

\* set_tasks raised on a list whose first entry is well formed and whose
\* second carries an unknown field; the store holds what it held
C32_Witness ==
    /\ pc = "raised"
    /\ args.op = "set_tasks"
    /\ Len(args.tasks) = 2
    /\ ~C32_BadEntry(args.tasks[1])
    /\ "priority" \in DOMAIN args.tasks[2]
    /\ args.requirement = "R1"
    /\ requirement = "R0"
    /\ Len(tasks) = 2
    /\ file = save_tasks(requirement, tasks)

\* ---- C33 ----
\* C33: selection is strict head-of-line: at the head of every iteration the
\* task marked in_progress is the earliest task in stored order that is not
\* completed, so every task stored before it is completed and none of them
\* is pending, failed or in_progress; a failed task that stays in the store
\* is therefore taken again before any task stored after it
C33_HeadOfLine ==
    [][(pc = "loop" /\ pc' = "context") =>
         LET m == FirstIndexOf(tasks, task'[1].id)
         IN  /\ tasks'[m].status = "in_progress"
             /\ tasks[m].status # "completed"
             /\ \A j \in 1..(m - 1) : tasks[j].status = "completed"]_vars

\* ---- C34 ----
\* C34: no task is left in_progress at an iteration boundary.  On every path
\* through an iteration in which the Refiner does not change the task list,
\* the step that ends the iteration leaves the selected task completed or
\* failed and leaves no task in_progress that was not in_progress before it;
\* so a run that starts without an in_progress task has at most one at any
\* time and none when run() returns
C34_NoneLeftInProgress ==
    [][(/\ task # <<>>
        /\ pc' \in {"loop", "done"}
        /\ ~(pc = "refine" /\ last_op' = "set_tasks")) =>
         /\ HasId(tasks', task[1].id)
         /\ StatusOf(tasks', task[1].id) \in {"completed", "failed"}
         /\ \A i \in 1..Len(tasks') :
               tasks'[i].status = "in_progress" =>
                  (i <= Len(tasks) /\ tasks[i].status = "in_progress")]_vars

\* ---- C35 ----
\* a step that starts an oracle call: the implementation query, the
\* decomposition query, the planning query, the commit-message query or the
\* Refiner's query
C35_CallStarts ==
    \/ pc = "context" /\ pc' = "query"
    \/ pc = "timed_out" /\ pc' = "breakdown"
    \/ pc = "constructed" /\ (pc' = "aborted" \/ last_op' = "set_tasks")
    \/ pc = "commit_msg" /\ pc' = "committing"
    \/ pc = "refine" /\ pc' # "refine"

\* C35: at most one oracle invocation is in flight at any time: no oracle
\* call is started while an earlier one is still running, also after the
\* deadline of the implementation query has expired; a call with a deadline
\* is the only one running while it runs
C35_NoOverlap ==
    /\ [][C35_CallStarts => worker # "running"]_vars
    /\ [](worker = "running" => pc \in {"query", "query_exit", "breakdown",
                                         "breakdown_exit"})

\* the decomposition query is running after the deadline of the
\* implementation query expired and its call has ended
C35_Witness ==
    /\ pc = "breakdown"
    /\ worker = "running"
    /\ task # <<>>
    /\ StatusOf(tasks, task[1].id) = "failed"


\* ---- C36 ----
\* C36: the ceiling given to the entry point is honoured for every value.  In
\* a run that autonomous_coding started with max_tasks = a, a >= 0, the loop
\* marks a task in_progress at most a times; with a = 0 it marks none and no
\* implementation query is submitted.
C36_CeilingHonoured ==
    [](pc \notin {"new", "constructed", "ready", "aborted"} =>
         /\ args.max_tasks >= 0 => started <= args.max_tasks
         /\ args.max_tasks = 0 => (started = 0 /\ pc # "query"))
====
